---- MODULE Spec2Model ----
(***************************************************************************)
(* The SQL Server driver of lazysql (drivers/sqlserver.go): the session    *)
(* state of a SqlServer value, its context switch, its read, write and     *)
(* introspection operations, and the statement builder of                  *)
(* ExecutePendingChanges.                                                  *)
(*                                                                         *)
(* Strings that the code takes apart (table names) are sequences of        *)
(* one-character strings; generated SQL is a sequence of text pieces, so   *)
(* that strings.Split, strings.Contains and fmt.Sprintf are modelled by    *)
(* what they do.  *sql.DB handles live in `handles`; a handle is named by  *)
(* its index and 0 is the nil pointer.                                     *)
(***************************************************************************)
EXTENDS Integers, Sequences, FiniteSets, TLC

VARIABLES
    Connection,        \* SqlServer.Connection: index into handles, 0 = nil
    CurrentDatabase,   \* SqlServer.CurrentDatabase
    PreviousDatabase,  \* SqlServer.PreviousDatabase
    Urlstr,            \* SqlServer.Urlstr
    handles,           \* every *sql.DB opened so far: [bound, closed]
    applied,           \* the committed pending-change transactions, whose effects are visible
    last,              \* the last call made on the driver and what it returned
    calls,             \* the calls in progress when callers do not serialize them
    currentFilter,     \* ResultsTableFilter.currentFilter
    Input,             \* the text of ResultsTableFilter.Input
    subscribers,       \* ResultsTableFilter.subscribers: the channels, in order
    channels,          \* every channel made by Subscribe: what was received from it
    publishing,        \* the Publish in progress: its message and the next channel
    published,         \* the messages Publish was called with, in order
    key                \* the last key the done function handled, and the state before

driverVars ==
    <<Connection, CurrentDatabase, PreviousDatabase, Urlstr, handles, applied, last, calls>>

filterVars == <<currentFilter, Input, subscribers, channels, publishing, published, key>>

vars ==
    <<Connection, CurrentDatabase, PreviousDatabase, Urlstr, handles, applied, last, calls,
      currentFilter, Input, subscribers, channels, publishing, published, key>>

-----------------------------------------------------------------------------
(* Bounds *)

\* Handles a behaviour may open (each Connect and SwitchDatabase opens one).
MaxHandles == 4

\* Pending-change transactions a behaviour may commit.
MaxCommits == 1

-----------------------------------------------------------------------------
(* Values *)

Nil == "nil"

\* The catalog a login lands in when the connection string names none.
DefaultCatalog == "master"

Databases == {"d1", "d2"}

\* A connection string, by what sql.Open and dburl.Parse make of it:
\* opens    - the mssql driver accepts it (sql.Open returns no error)
\* parses   - dburl.Parse accepts it
\* database - the value of its `database` parameter, "" when absent
UrlPlain == [opens |-> TRUE, parses |-> TRUE, database |-> ""]
UrlWithDb == [opens |-> TRUE, parses |-> TRUE, database |-> "d1"]
UrlBad == [opens |-> FALSE, parses |-> FALSE, database |-> ""]
UrlEmpty == [opens |-> FALSE, parses |-> FALSE, database |-> ""]

Urls == {UrlPlain, UrlWithDb, UrlBad}

\* The database a handle opened with `database=name` is bound to.
BoundTo(name) == IF name = "" THEN DefaultCatalog ELSE name

ErrDatabaseRequired == "database name is required"
ErrTableRequired == "table name is required"
ErrTableFormat == "table must be in the format schema.table"
ErrColumnRequired == "column name is required"
ErrValueRequired == "value is required"
ErrPkColumnRequired == "primary key column name is required"
ErrPkValueRequired == "primary key value is required"

ValidationErrors ==
    {ErrDatabaseRequired, ErrTableRequired, ErrTableFormat, ErrColumnRequired,
     ErrValueRequired, ErrPkColumnRequired, ErrPkValueRequired}

\* Errors that come from the environment.
ErrOpen == "sql.Open failed"
ErrPing == "ping failed"
ErrParse == "dburl.Parse failed"
ErrClose == "close failed"
ErrQuery == "query failed"
ErrExec == "exec failed"

SwitchErrors == {ErrParse, ErrOpen, ErrClose}

-----------------------------------------------------------------------------
(* The driver as a value, so that one call can be composed of several steps *)

Self ==
    [Connection |-> Connection,
     CurrentDatabase |-> CurrentDatabase,
     PreviousDatabase |-> PreviousDatabase,
     Urlstr |-> Urlstr,
     handles |-> handles,
     applied |-> applied,
     log |-> <<>>,
     queries |-> <<>>,
     records |-> <<>>]

Event(ev, database, conn, res) ==
    [ev |-> ev, db |-> database, conn |-> conn, res |-> res]

Logged(d, e) == [d EXCEPT !.log = Append(@, e)]

Return(d, err, panicked) == [d |-> d, err |-> err, panicked |-> panicked]

Snapshot(d) ==
    [Connection |-> d.Connection,
     CurrentDatabase |-> d.CurrentDatabase,
     PreviousDatabase |-> d.PreviousDatabase,
     nhandles |-> Len(d.handles),
     applied |-> d.applied]

-----------------------------------------------------------------------------
(* SwitchDatabase *)

\* The database parameter of the connection string SwitchDatabase formats:
\* the original string's `database` parameter, and the target only when the
\* original has none.
SwitchDbName(url, database) ==
    IF url.database = "" THEN database ELSE url.database

\* The assignments of a switch without the one to PreviousDatabase.
SwitchCommitKeepsPrevious(d, conn, database) ==
    [d EXCEPT !.Connection = conn, !.CurrentDatabase = database]

\* The three assignments that commit a switch.
SwitchCommit(d, conn, database) ==
    [d EXCEPT !.Connection = conn,
              !.PreviousDatabase = d.CurrentDatabase,
              !.CurrentDatabase = database]

\* SwitchDatabase closing the old handle first and opening the new one only
\* when the close has succeeded.
SwitchDatabaseClosesFirst(d, database, openOk, closeOk) ==
    IF ~d.Urlstr.parses
    THEN Return(Logged(d, Event("SwitchDatabase", database, d.Connection, ErrParse)),
                ErrParse, FALSE)
    ELSE
      LET old == d.Connection
      IN  IF old = 0
          THEN Return(Logged(d, Event("SwitchDatabase", database, old, "panic")), Nil, TRUE)
          ELSE
            LET shut == [d EXCEPT !.handles[old].closed = TRUE]
                new == [bound |-> BoundTo(SwitchDbName(d.Urlstr, database)),
                        closed |-> FALSE]
                opened == [shut EXCEPT !.handles = Append(@, new)]
                conn == Len(opened.handles)
            IN  IF ~closeOk /\ ~d.handles[old].closed
                THEN Return(Logged(shut, Event("SwitchDatabase", database, old, ErrClose)),
                            ErrClose, FALSE)
                ELSE IF ~openOk
                THEN Return(Logged(shut, Event("SwitchDatabase", database, old, ErrOpen)),
                            ErrOpen, FALSE)
                ELSE Return(Logged(SwitchCommit(opened, conn, database),
                                   Event("SwitchDatabase", database, conn, Nil)),
                            Nil, FALSE)

\* SwitchDatabase with the three assignments made as soon as the new handle
\* is open, before the old one is closed.
SwitchDatabaseCommitsFirst(d, database, openOk, closeOk) ==
    IF ~d.Urlstr.parses
    THEN Return(Logged(d, Event("SwitchDatabase", database, d.Connection, ErrParse)),
                ErrParse, FALSE)
    ELSE IF ~openOk
    THEN Return(Logged(d, Event("SwitchDatabase", database, d.Connection, ErrOpen)),
                ErrOpen, FALSE)
    ELSE
      LET new == [bound |-> BoundTo(SwitchDbName(d.Urlstr, database)), closed |-> FALSE]
          opened == [d EXCEPT !.handles = Append(@, new)]
          conn == Len(opened.handles)
          old == d.Connection
          set == SwitchCommit(opened, conn, database)
      IN  IF old = 0
          THEN Return(Logged(set, Event("SwitchDatabase", database, conn, "panic")),
                      Nil, TRUE)
          ELSE
            LET shut == [set EXCEPT !.handles[old].closed = TRUE]
            IN  IF ~closeOk /\ ~d.handles[old].closed
                THEN Return(Logged(shut, Event("SwitchDatabase", database, conn, ErrClose)),
                            ErrClose, FALSE)
                ELSE Return(Logged(shut, Event("SwitchDatabase", database, conn, Nil)),
                            Nil, FALSE)

\* openOk, closeOk: whether sql.Open and the old handle's Close succeed.
\* Close on a nil handle panics; Close on a handle already closed returns nil;
\* a Close that returns an error has closed the handle all the same.
SwitchDatabase(d, database, openOk, closeOk) ==
    IF ~d.Urlstr.parses
    THEN Return(Logged(d, Event("SwitchDatabase", database, d.Connection, ErrParse)),
                ErrParse, FALSE)
    ELSE IF ~openOk
    THEN Return(Logged(d, Event("SwitchDatabase", database, d.Connection, ErrOpen)),
                ErrOpen, FALSE)
    ELSE
      LET new == [bound |-> BoundTo(SwitchDbName(d.Urlstr, database)), closed |-> FALSE]
          opened == [d EXCEPT !.handles = Append(@, new)]
          conn == Len(opened.handles)
          old == d.Connection
      IN  IF old = 0
          THEN Return(Logged(opened, Event("SwitchDatabase", database, old, "panic")),
                      Nil, TRUE)
          ELSE
            LET shut == [opened EXCEPT !.handles[old].closed = TRUE]
            IN  IF ~closeOk /\ ~d.handles[old].closed
                THEN Return(Logged(shut, Event("SwitchDatabase", database, old, ErrClose)),
                            ErrClose, FALSE)
                ELSE Return(Logged(SwitchCommit(shut, conn, database),
                                   Event("SwitchDatabase", database, conn, Nil)),
                            Nil, FALSE)

-----------------------------------------------------------------------------
(* Connect *)

\* pingOk: whether the liveness check succeeds.
ConnectCall(d, url, pingOk) ==
    IF ~url.opens
    THEN Return([d EXCEPT !.Connection = 0], ErrOpen, FALSE)
    ELSE
      LET new == [bound |-> BoundTo(url.database), closed |-> FALSE]
          opened == [d EXCEPT !.handles = Append(@, new),
                              !.Connection = Len(d.handles) + 1]
      IN  IF ~pingOk
          THEN Return(opened, ErrPing, FALSE)
          ELSE Return([opened EXCEPT !.Urlstr = url], Nil, FALSE)

-----------------------------------------------------------------------------
(* Strings *)

RECURSIVE Split(_, _)
\* strings.Split(s, sep) for a one-character sep: the pieces between the
\* separators, one more than there are separators.
Split(s, sep) ==
    LET at == {i \in 1..Len(s) : s[i] = sep}
    IN  IF at = {}
        THEN <<s>>
        ELSE LET i == CHOOSE x \in at : \A y \in at : x <= y
             IN  <<SubSeq(s, 1, i - 1)>> \o Split(SubSeq(s, i + 1, Len(s)), sep)

\* strings.Contains(s, c) for a one-character c.
Contains(s, c) == \E i \in 1..Len(s) : s[i] = c

\* fmt.Sprintf("[%s].[%s]", database, table)
formatTableName(database, table) ==
    <<"[">> \o database \o <<"]", ".", "[">> \o table \o <<"]">>

\* A statement and its bound arguments (models.Query).
Query(text, args) == [Query |-> text, Args |-> args]

-----------------------------------------------------------------------------
(* The steps the operations share *)

\* What a query on the driver's handle does: a nil handle panics, a closed
\* handle returns an error, an open one does what the server makes of it.
Outcome(d, want) ==
    IF d.Connection = 0 THEN "panic"
    ELSE IF d.handles[d.Connection].closed THEN "err"
    ELSE want

\* db.Connection.Query / Exec / QueryRow of q.
Run(d, ev, q, want) ==
    LET out == Outcome(d, want)
    IN  [d |-> Logged([d EXCEPT !.queries = Append(@, q)],
                      Event(ev, d.CurrentDatabase, d.Connection, out)),
         out |-> out]

\* The operation runs under whatever database is current.
ImplicitSwitchSkipped(d, database, openOk, closeOk) == Return(d, Nil, FALSE)

\* if database != db.CurrentDatabase { err = db.SwitchDatabase(database) ... }
ImplicitSwitch(d, database, openOk, closeOk) ==
    IF database # d.CurrentDatabase
    THEN SwitchDatabase(d, database, openOk, closeOk)
    ELSE Return(d, Nil, FALSE)

\* The deferred function of the read operations, run after a panic:
\* _ = db.SwitchDatabase(db.PreviousDatabase). The named result err keeps the
\* value it had when the query panicked, which is nil.
Recovered(d, e) ==
    LET r == SwitchDatabase(d, d.PreviousDatabase, e.open2, e.close2)
    IN  Return(r.d, Nil, r.panicked)

\* rows, err := db.Connection.Query(...); if err != nil { return nil, err };
\* scan errors and rows.Err() return the same way.
QueryRows(d, q, e) ==
    LET run == Run(d, "Query", q, e.out)
    IN  CASE run.out = "ok" -> Return(run.d, Nil, FALSE)
          [] run.out = "err" -> Return(run.d, ErrQuery, FALSE)
          [] run.out = "panic" -> Recovered(run.d, e)

-----------------------------------------------------------------------------
(* Read and introspection operations *)

TablesQuery == <<"SELECT [TABLE_NAME], [TABLE_SCHEMA] FROM INFORMATION_SCHEMA.TABLES">>
ColumnsQuery == <<"SELECT [COLUMN_NAME] FROM INFORMATION_SCHEMA.COLUMNS">>
ConstraintsQuery == <<"SELECT ... WHERE tc.CONSTRAINT_TYPE != 'FOREIGN KEY'">>
ForeignKeysQuery == <<"SELECT ... WHERE tc.CONSTRAINT_TYPE = 'FOREIGN KEY'">>
IndexesQuery == <<"SELECT ... FROM sys.indexes ind">>
PrimaryKeyQuery == <<"SELECT ... WHERE tc.CONSTRAINT_TYPE = 'PRIMARY KEY'">>

GetTablesCall(d, database, e) ==
    IF database = "" THEN Return(d, ErrDatabaseRequired, FALSE)
    ELSE
      LET sw == ImplicitSwitch(d, database, e.open, e.close)
      IN  IF sw.panicked \/ sw.err # Nil THEN sw
          ELSE QueryRows(sw.d, Query(TablesQuery, <<database>>), e)

\* The checks every operation on a table starts with.
TableCheck(database, table) ==
    IF database = "" THEN ErrDatabaseRequired
    ELSE IF table = <<>> THEN ErrTableRequired
    ELSE IF Len(Split(table, ".")) = 1 THEN ErrTableFormat
    ELSE Nil

\* The body GetTableColumns, GetConstraints, GetForeignKeys and
\* GetPrimaryKeyColumnNames share: the query text is what differs.
IntrospectCall(d, database, table, text, e) ==
    IF TableCheck(database, table) # Nil
    THEN Return(d, TableCheck(database, table), FALSE)
    ELSE
      LET sw == ImplicitSwitch(d, database, e.open, e.close)
          splitTableString == Split(table, ".")
          tableSchema == splitTableString[1]
          tableName == splitTableString[2]
      IN  IF sw.panicked \/ sw.err # Nil THEN sw
          ELSE QueryRows(sw.d, Query(text, <<tableSchema, tableName>>), e)

GetTableColumnsCall(d, database, table, e) ==
    IntrospectCall(d, database, table, ColumnsQuery, e)

GetConstraintsCall(d, database, table, e) ==
    IntrospectCall(d, database, table, ConstraintsQuery, e)

GetForeignKeysCall(d, database, table, e) ==
    IntrospectCall(d, database, table, ForeignKeysQuery, e)

GetPrimaryKeyColumnNamesCall(d, database, table, e) ==
    IntrospectCall(d, database, table, PrimaryKeyQuery, e)

\* GetIndexes passes the schema and the name to fmt.Sprintf, whose format has
\* no verb for them, and binds no argument.
GetIndexesCall(d, database, table, e) ==
    IF TableCheck(database, table) # Nil
    THEN Return(d, TableCheck(database, table), FALSE)
    ELSE
      LET sw == ImplicitSwitch(d, database, e.open, e.close)
          splitTableString == Split(table, ".")
          tableSchema == splitTableString[1]
          tableName == splitTableString[2]
          text == IndexesQuery \o <<"%!(EXTRA string=">> \o tableSchema
                  \o <<", string=">> \o tableName \o <<")">>
      IN  IF sw.panicked \/ sw.err # Nil THEN sw
          ELSE QueryRows(sw.d, Query(text, <<>>), e)

-----------------------------------------------------------------------------
(* GetRecords *)

DefaultRowLimit == 300

\* The query with no pagination clause when no limit is given.
GetRecordsQueryUnbounded(tableSchema, tableName, where, sort, offset, limit) ==
    LET formattedTableName == formatTableName(tableSchema, tableName)
        q1 == <<"SELECT * FROM ">> \o formattedTableName
        q2 == IF where # "" THEN q1 \o <<" ", where>> ELSE q1
        q3 == IF sort # "" THEN q2 \o <<" ORDER BY ", sort>>
              ELSE IF offset > 0 \/ limit > 0 THEN q2 \o <<" ORDER BY (SELECT NULL)">>
              ELSE q2
    IN  IF limit = 0 THEN q3
        ELSE q3 \o <<" OFFSET ", ToString(offset), " ROWS FETCH NEXT ", ToString(limit),
                     " ROWS ONLY">>

\* The text of the paginated query, from the two parts of the table name.
GetRecordsQuery(tableSchema, tableName, where, sort, offset, limit) ==
    LET formattedTableName == formatTableName(tableSchema, tableName)
        isPaginationEnabled == offset > 0 \/ limit > 0
        fetch == IF limit = 0 THEN DefaultRowLimit ELSE limit
        q1 == <<"SELECT * FROM ">> \o formattedTableName
        q2 == IF where # "" THEN q1 \o <<" ", where>> ELSE q1
        q3 == IF sort # "" THEN q2 \o <<" ORDER BY ", sort>>
              ELSE IF isPaginationEnabled THEN q2 \o <<" ORDER BY (SELECT NULL)">>
              ELSE q2
    IN  q3 \o <<" OFFSET ", ToString(offset), " ROWS FETCH NEXT ", ToString(fetch),
                " ROWS ONLY">>

CountQuery(tableSchema, tableName) ==
    <<"SELECT COUNT(*) FROM ">> \o formatTableName(tableSchema, tableName)

\* The names of the columns of the result set (paginatedRows.Columns()).
ResultColumns == <<"a", "b">>

\* A scanned cell that is SQL NULL, and one that holds a string
\* (sql.NullString).
NullCell == [Valid |-> FALSE, String |-> ""]
StringCell(str) == [Valid |-> TRUE, String |-> str]

\* Every cell rendered as the string it holds, NULL as "".
RenderCellPlain(col) == col.String

\* The string a scanned cell is returned as.
RenderCell(col) ==
    IF col.Valid
    THEN IF col.String = "" THEN "EMPTY&" ELSE col.String
    ELSE "NULL&"

\* The loop over paginatedRows: the column names first, then one row of
\* rendered cells per row of the result set.
Records(columns, rows) ==
    <<columns>> \o [i \in 1..Len(rows) |->
                      [j \in 1..Len(rows[i]) |-> RenderCell(rows[i][j])]]

\* The deferred function of GetRecords switches back only when the requested
\* database is not the previous one.
RecoveredRecords(d, database, e) ==
    IF database # d.PreviousDatabase
    THEN Recovered(d, e)
    ELSE Return(d, Nil, FALSE)

\* e.out is what the paginated query does, e.rows the rows it returns, e.count
\* what the count query does.
GetRecordsCall(d, database, table, where, sort, offset, limit, e) ==
    IF TableCheck(database, table) # Nil
    THEN Return(d, TableCheck(database, table), FALSE)
    ELSE
      LET sw == ImplicitSwitch(d, database, e.open, e.close)
          splitTableString == Split(table, ".")
          tableSchema == splitTableString[1]
          tableName == splitTableString[2]
          query == GetRecordsQuery(tableSchema, tableName, where, sort, offset, limit)
      IN  IF sw.panicked \/ sw.err # Nil THEN sw
          ELSE
            LET run == Run(sw.d, "Query", Query(query, <<>>), e.out)
            IN  CASE run.out = "err" -> Return(run.d, ErrQuery, FALSE)
                  [] run.out = "panic" -> RecoveredRecords(run.d, database, e)
                  [] run.out = "ok" ->
                       LET read == [run.d EXCEPT !.records = Records(ResultColumns, e.rows)]
                           cnt == Run(read, "Query",
                                      Query(CountQuery(tableSchema, tableName), <<>>),
                                      e.count)
                       IN  CASE cnt.out = "ok" -> Return(cnt.d, Nil, FALSE)
                             [] cnt.out = "err" ->
                                  Return([cnt.d EXCEPT !.records = <<>>], ErrQuery, FALSE)
                             [] cnt.out = "panic" ->
                                  RecoveredRecords(cnt.d, database, e)

-----------------------------------------------------------------------------
(* UpdateRecord and DeleteRecord *)

\* The switch back made after every failed statement, whether or not the call
\* had switched.
ExecThenRestoreAlways(d, q, switchDatabaseOnError, e) ==
    LET run == Run(d, "Exec", q, e.out)
    IN  CASE run.out = "panic" -> Return(run.d, Nil, TRUE)
          [] run.out = "ok" -> Return(run.d, Nil, FALSE)
          [] run.out = "err" ->
               SwitchDatabase(run.d, run.d.PreviousDatabase, e.open2, e.close2)

\* _, err = db.Connection.Exec(query, args...) and what follows it:
\* if err != nil && switchDatabaseOnError { err = db.SwitchDatabase(db.PreviousDatabase) }
\* return err
ExecThenRestore(d, q, switchDatabaseOnError, e) ==
    LET run == Run(d, "Exec", q, e.out)
    IN  CASE run.out = "panic" -> Return(run.d, Nil, TRUE)
          [] run.out = "ok" -> Return(run.d, Nil, FALSE)
          [] run.out = "err" ->
               IF switchDatabaseOnError
               THEN SwitchDatabase(run.d, run.d.PreviousDatabase, e.open2, e.close2)
               ELSE Return(run.d, ErrExec, FALSE)

\* The checks of UpdateRecord without the one of value.
UpdateRecordCheckNoValue(database, table, column, value, primaryKeyColumnName, primaryKeyValue) ==
    IF database = "" THEN ErrDatabaseRequired
    ELSE IF table = <<>> THEN ErrTableRequired
    ELSE IF column = "" THEN ErrColumnRequired
    ELSE IF primaryKeyColumnName = "" THEN ErrPkColumnRequired
    ELSE IF primaryKeyValue = "" THEN ErrPkValueRequired
    ELSE IF Len(Split(table, ".")) = 1 THEN ErrTableFormat
    ELSE Nil

UpdateRecordCheck(database, table, column, value, primaryKeyColumnName, primaryKeyValue) ==
    IF database = "" THEN ErrDatabaseRequired
    ELSE IF table = <<>> THEN ErrTableRequired
    ELSE IF column = "" THEN ErrColumnRequired
    ELSE IF value = "" THEN ErrValueRequired
    ELSE IF primaryKeyColumnName = "" THEN ErrPkColumnRequired
    ELSE IF primaryKeyValue = "" THEN ErrPkValueRequired
    ELSE IF Len(Split(table, ".")) = 1 THEN ErrTableFormat
    ELSE Nil

UpdateRecordCall(d, database, table, column, value, primaryKeyColumnName, primaryKeyValue, e) ==
    LET bad == UpdateRecordCheck(database, table, column, value,
                                 primaryKeyColumnName, primaryKeyValue)
    IN  IF bad # Nil THEN Return(d, bad, FALSE)
        ELSE
          LET sw == ImplicitSwitch(d, database, e.open, e.close)
              switchDatabaseOnError == database # d.CurrentDatabase
              splitTableString == Split(table, ".")
              tableSchema == splitTableString[1]
              tableName == splitTableString[2]
              query == <<"UPDATE ">> \o formatTableName(tableSchema, tableName)
                       \o <<" SET ", "[", column, "]", " = ", "?",
                            " WHERE ", "[", primaryKeyColumnName, "]", " = ", "?">>
          IN  IF sw.panicked \/ sw.err # Nil THEN sw
              ELSE ExecThenRestore(sw.d, Query(query, <<value, primaryKeyValue>>),
                                   switchDatabaseOnError, e)

DeleteRecordCheck(database, table, primaryKeyColumnName, primaryKeyValue) ==
    IF database = "" THEN ErrDatabaseRequired
    ELSE IF table = <<>> THEN ErrTableRequired
    ELSE IF primaryKeyColumnName = "" THEN ErrPkColumnRequired
    ELSE IF primaryKeyValue = "" THEN ErrPkValueRequired
    ELSE IF Len(Split(table, ".")) = 1 THEN ErrTableFormat
    ELSE Nil

DeleteRecordCall(d, database, table, primaryKeyColumnName, primaryKeyValue, e) ==
    LET bad == DeleteRecordCheck(database, table, primaryKeyColumnName, primaryKeyValue)
    IN  IF bad # Nil THEN Return(d, bad, FALSE)
        ELSE
          LET sw == ImplicitSwitch(d, database, e.open, e.close)
              switchDatabaseOnError == database # d.CurrentDatabase
              splitTableString == Split(table, ".")
              tableSchema == splitTableString[1]
              tableName == splitTableString[2]
              query == <<"DELETE FROM ">> \o formatTableName(tableSchema, tableName)
                       \o <<" WHERE ", "[", primaryKeyColumnName, "]", " = ", "?">>
          IN  IF sw.panicked \/ sw.err # Nil THEN sw
              ELSE ExecThenRestore(sw.d, Query(query, <<primaryKeyValue>>),
                                   switchDatabaseOnError, e)

-----------------------------------------------------------------------------
(* ExecutePendingChanges: the statement of one change *)

\* models.CellValueType
String == "String"
Empty == "Empty"
Null == "Null"
Default == "Default"

\* models.DmlType
DmlInsertType == "Insert"
DmlUpdateType == "Update"
DmlDeleteType == "Delete"

\* fmt.Sprintf("$%d", n)
Placeholder(n) == <<"$", ToString(n)>>

RECURSIVE Placeholders(_, _)
\* The first loop over change.Values: one rendered placeholder per cell, the
\* running placeholderIndex advancing on the cells that are not Default or Null.
Placeholders(cells, placeholderIndex) ==
    IF cells = <<>> THEN <<>>
    ELSE LET cell == Head(cells)
         IN  CASE cell.Type = Default ->
                    <<<<"DEFAULT">>>> \o Placeholders(Tail(cells), placeholderIndex)
               [] cell.Type = Null ->
                    <<<<"NULL">>>> \o Placeholders(Tail(cells), placeholderIndex)
               [] OTHER ->
                    <<Placeholder(placeholderIndex)>>
                    \o Placeholders(Tail(cells), placeholderIndex + 1)

ColumnNames(cells) == [i \in 1..Len(cells) |-> cells[i].Column]

\* Every cell binds its value, the Null and Default cells included.
ValuesOfEveryCell(cells) == [i \in 1..Len(cells) |-> cells[i].Value]

RECURSIVE Values(_)
\* The second loop over change.Values: the bound arguments.
Values(cells) ==
    IF cells = <<>> THEN <<>>
    ELSE LET cell == Head(cells)
         IN  CASE cell.Type = Empty -> <<"">> \o Values(Tail(cells))
               [] cell.Type = String -> <<cell.Value>> \o Values(Tail(cells))
               [] OTHER -> Values(Tail(cells))

RECURSIVE Join(_, _)
\* strings.Join of pieces that are each a sequence of text.
Join(pieces, sep) ==
    IF pieces = <<>> THEN <<>>
    ELSE IF Len(pieces) = 1 THEN pieces[1]
    ELSE pieces[1] \o <<sep>> \o Join(Tail(pieces), sep)

InsertQuery(formattedTableName, columnNames, valuesPlaceholder, values) ==
    Query(<<"INSERT INTO ">> \o formattedTableName
          \o <<" (">> \o Join([i \in 1..Len(columnNames) |-> <<columnNames[i]>>], ", ")
          \o <<") VALUES (">> \o Join(valuesPlaceholder, ", ") \o <<")">>,
          values)

RECURSIVE SetClause(_, _, _)
\* for i, column := range columnNames: " SET [c] = p" first, ", [c] = p" after.
SetClause(columnNames, valuesPlaceholder, i) ==
    IF i > Len(columnNames) THEN <<>>
    ELSE <<IF i = 1 THEN " SET " ELSE ", ", "[", columnNames[i], "]", " = ">>
         \o valuesPlaceholder[i] \o SetClause(columnNames, valuesPlaceholder, i + 1)

\* The placeholders of the SET clause: the rendered ones that contain "$".
CountPlaceholders(valuesPlaceholder) ==
    Cardinality({i \in 1..Len(valuesPlaceholder) : Contains(valuesPlaceholder[i], "$")})

RECURSIVE WhereClause(_, _, _)
\* for i, pki := range change.PrimaryKeyInfo: " WHERE [n] = $k" first,
\* " AND [n] = $k" after, k = base + i (i counted from 1).
WhereClause(primaryKeyInfo, base, i) ==
    IF i > Len(primaryKeyInfo) THEN <<>>
    ELSE <<IF i = 1 THEN " WHERE " ELSE " AND ", "[", primaryKeyInfo[i].Name, "]", " = ">>
         \o Placeholder(base + i) \o WhereClause(primaryKeyInfo, base, i + 1)

PrimaryKeyValues(primaryKeyInfo) ==
    [i \in 1..Len(primaryKeyInfo) |-> primaryKeyInfo[i].Value]

\* The WHERE clause numbered from 1 again instead of after the SET clause.
UpdateQueryRestarts(formattedTableName, columnNames, valuesPlaceholder, values, primaryKeyInfo) ==
    Query(<<"UPDATE ">> \o formattedTableName
          \o SetClause(columnNames, valuesPlaceholder, 1)
          \o WhereClause(primaryKeyInfo, 0, 1),
          values \o PrimaryKeyValues(primaryKeyInfo))

UpdateQuery(formattedTableName, columnNames, valuesPlaceholder, values, primaryKeyInfo) ==
    LET wherePlaceholder == CountPlaceholders(valuesPlaceholder)
    IN  Query(<<"UPDATE ">> \o formattedTableName
              \o SetClause(columnNames, valuesPlaceholder, 1)
              \o WhereClause(primaryKeyInfo, wherePlaceholder, 1),
              values \o PrimaryKeyValues(primaryKeyInfo))

\* The placeholders numbered by the loop index itself, from 0.
DeleteQueryFromZero(formattedTableName, primaryKeyInfo) ==
    Query(<<"DELETE FROM ">> \o formattedTableName \o WhereClause(primaryKeyInfo, -1, 1),
          PrimaryKeyValues(primaryKeyInfo))

DeleteQuery(formattedTableName, primaryKeyInfo) ==
    Query(<<"DELETE FROM ">> \o formattedTableName \o WhereClause(primaryKeyInfo, 0, 1),
          PrimaryKeyValues(primaryKeyInfo))

\* The body of the loop over changes, for a change whose table has a '.':
\* the statement built from it.
ChangeQuery(change) ==
    LET columnNames == ColumnNames(change.Values)
        values == Values(change.Values)
        valuesPlaceholder == Placeholders(change.Values, 1)
        splitTableString == Split(change.Table, ".")
        tableSchema == splitTableString[1]
        tableName == splitTableString[2]
        formattedTableName == formatTableName(tableSchema, tableName)
    IN  CASE change.Type = DmlInsertType ->
               InsertQuery(formattedTableName, columnNames, valuesPlaceholder, values)
          [] change.Type = DmlUpdateType ->
               UpdateQuery(formattedTableName, columnNames, valuesPlaceholder, values,
                           change.PrimaryKeyInfo)
          [] change.Type = DmlDeleteType ->
               DeleteQuery(formattedTableName, change.PrimaryKeyInfo)

\* splitTableString[1] is read without a check of the length: a table with no
\* '.' makes the index run out of range.
ChangePanics(change) == Len(Split(change.Table, ".")) < 2

RECURSIVE Distinct(_)
\* A batch without the changes that occur again later in it.
Distinct(changes) ==
    IF changes = <<>> THEN <<>>
    ELSE IF \E i \in 2..Len(changes) : changes[i] = Head(changes)
    THEN Distinct(Tail(changes))
    ELSE <<Head(changes)>> \o Distinct(Tail(changes))

\* The statements of the distinct changes only.
BuildQueriesDistinct(changes) ==
    IF \E i \in 1..Len(changes) : ChangePanics(changes[i])
    THEN [panicked |-> TRUE, queries |-> <<>>]
    ELSE [panicked |-> FALSE,
          queries |-> [i \in 1..Len(Distinct(changes)) |-> ChangeQuery(Distinct(changes)[i])]]

RECURSIVE BuildQueries(_)
\* The loop over changes: the statements in the order of the changes, or the
\* panic of the first change whose table cannot be split.
BuildQueries(changes) ==
    IF changes = <<>> THEN [panicked |-> FALSE, queries |-> <<>>]
    ELSE IF ChangePanics(Head(changes)) THEN [panicked |-> TRUE, queries |-> <<>>]
    ELSE LET rest == BuildQueries(Tail(changes))
         IN  [panicked |-> rest.panicked,
              queries |-> IF rest.panicked THEN <<>>
                          ELSE <<ChangeQuery(Head(changes))>> \o rest.queries]

-----------------------------------------------------------------------------
(* ExecutePendingChanges: the transaction *)

Min(S) == CHOOSE x \in S : \A y \in S : x <= y

ErrBegin == "begin failed"

\* The error of the i-th statement of a batch.
StatementError(i) == "exec failed: statement " \o ToString(i)

RECURSIVE Submit(_, _, _, _)
\* trx.Exec of the statements i..upTo, in order.
Submit(d, queries, i, upTo) ==
    IF i > upTo THEN d
    ELSE Submit(Logged([d EXCEPT !.queries = Append(@, queries[i])],
                       Event("TxExec", d.CurrentDatabase, d.Connection, "ok")),
                queries, i + 1, upTo)

\* Every statement run on the handle outside a transaction, each taking
\* effect as soon as it succeeds.
queriesOneByOne(d, queries, fails) ==
    IF d.Connection = 0 THEN Return(d, Nil, TRUE)
    ELSE IF d.handles[d.Connection].closed THEN Return(d, ErrBegin, FALSE)
    ELSE IF fails = {}
    THEN LET ran == Submit(d, queries, 1, Len(queries))
         IN  Return(IF queries = <<>> THEN ran
                    ELSE [ran EXCEPT !.applied = Append(@, queries)],
                    Nil, FALSE)
    ELSE LET bad == Min(fails)
             ran == Submit(d, queries, 1, bad - 1)
             failed == Logged([ran EXCEPT !.queries = Append(@, queries[bad])],
                              Event("TxExec", d.CurrentDatabase, d.Connection, "err"))
         IN  Return(IF bad = 1 THEN failed
                    ELSE [failed EXCEPT !.applied = Append(@, SubSeq(queries, 1, bad - 1))],
                    StatementError(bad), FALSE)

\* queriesInTransaction(db.Connection, queries): one transaction for the whole
\* batch; the first statement that fails rolls everything back and its error
\* is returned, otherwise the batch is committed. `fails` are the statements
\* the server rejects when they are run.
queriesInTransaction(d, queries, fails) ==
    IF d.Connection = 0 THEN Return(d, Nil, TRUE)
    ELSE IF d.handles[d.Connection].closed THEN Return(d, ErrBegin, FALSE)
    ELSE IF fails = {}
    THEN LET ran == Submit(d, queries, 1, Len(queries))
         IN  Return(IF queries = <<>> THEN ran
                    ELSE [ran EXCEPT !.applied = Append(@, queries)],
                    Nil, FALSE)
    ELSE LET bad == Min(fails)
             ran == Submit(d, queries, 1, bad - 1)
         IN  Return(Logged([ran EXCEPT !.queries = Append(@, queries[bad])],
                           Event("TxExec", d.CurrentDatabase, d.Connection, "err")),
                    StatementError(bad), FALSE)

\* One transaction per statement instead of one for the batch.
ExecutePendingChangesEach(d, changes, fails) ==
    LET built == BuildQueries(changes)
    IN  IF built.panicked THEN Return(d, Nil, TRUE)
        ELSE queriesOneByOne(d, built.queries, fails)

ExecutePendingChangesCall(d, changes, fails) ==
    LET built == BuildQueries(changes)
    IN  IF built.panicked THEN Return(d, Nil, TRUE)
        ELSE queriesInTransaction(d, built.queries, fails)

-----------------------------------------------------------------------------
(* Inputs *)

GoodTable == <<"s", ".", "t">>
Tables == {GoodTable, <<"t">>, <<"s", ".">>, <<".", "t">>, <<"a", ".", "b", ".", "c">>, <<>>}

DatabaseArgs == Databases \cup {""}

\* column, value, primaryKeyColumnName, primaryKeyValue
GoodUpdateArgs == <<"c", "v", "id", "1">>

\* primaryKeyColumnName, primaryKeyValue
GoodDeleteArgs == <<"id", "1">>

Page(where, sort, offset, limit) ==
    [where |-> where, sort |-> sort, offset |-> offset, limit |-> limit]

FirstPage == Page("", "", 0, 0)

Cell(column, value, type) == [Column |-> column, Value |-> value, Type |-> type]
Pk(name, value) == [Name |-> name, Value |-> value]
Change(table, type, values, primaryKeyInfo) ==
    [Table |-> table, Type |-> type, Values |-> values, PrimaryKeyInfo |-> primaryKeyInfo]

-----------------------------------------------------------------------------
(* The record of a call *)

NoTable == <<>>

\* A result set with no rows.
NoRows == <<>>

Call(op, database, table, pre, r) ==
    [op |-> op,
     database |-> database,
     table |-> table,
     args |-> <<>>,
     page |-> FirstPage,
     rows |-> NoRows,
     records |-> r.d.records,
     changes |-> <<>>,
     fails |-> {},
     err |-> r.err,
     panicked |-> r.panicked,
     pre |-> Snapshot(pre),
     log |-> r.d.log,
     queries |-> r.d.queries]

\* No key handled yet.
NoKey == [key |-> "none", text |-> "", filter |-> "", count |-> 0]

\* No Publish in progress.
NotPublishing == [active |-> FALSE, message |-> "", targets |-> <<>>, next |-> 1]

\* The filter as NewResultsFilter returns it: no filter, no text, no
\* subscriber.
NewResultsFilter ==
    /\ currentFilter = ""
    /\ Input = ""
    /\ subscribers = <<>>
    /\ channels = <<>>
    /\ publishing = NotPublishing
    /\ published = <<>>
    /\ key = NoKey

\* The callers of the driver, and a caller that is not in a call.
Callers == {1, 2}

Idle ==
    [pc |-> "idle", database |-> "", switchDatabaseOnError |-> FALSE, under |-> Nil,
     overlapped |-> FALSE]

NoCalls == [p \in Callers |-> Idle]

\* The driver's fields, the handles and the database take the values the
\* call, or the step of a call, left.
Assign(r) ==
    /\ Len(r.d.handles) <= MaxHandles
    /\ Len(r.d.applied) <= MaxCommits
    /\ Connection' = r.d.Connection
    /\ CurrentDatabase' = r.d.CurrentDatabase
    /\ PreviousDatabase' = r.d.PreviousDatabase
    /\ Urlstr' = r.d.Urlstr
    /\ handles' = r.d.handles
    /\ applied' = r.d.applied
    /\ UNCHANGED filterVars

\* A call made while no other is in progress runs from its first statement
\* to its return in one step.
Commit(r) ==
    /\ Assign(r)
    /\ calls' = calls

-----------------------------------------------------------------------------
(* What the environment does during a call *)

Outs == {"ok", "err", "panic"}

\* open, close: sql.Open and Close of the operation's own switch; out: the
\* query; count: the count query of GetRecords; open2, close2: sql.Open and
\* Close of the switch back; rows: the rows the paginated query of GetRecords
\* returns. A choice the call never reads is left at its
\* first value, so that each course of a call is enumerated once.
AllEnvs ==
    [open : BOOLEAN, close : BOOLEAN, out : Outs, count : Outs,
     open2 : BOOLEAN, close2 : BOOLEAN, rows : {NoRows}]

Canonical(e) ==
    /\ ~e.open => e.close
    /\ ~(e.open /\ e.close) => e.out = "ok"
    /\ e.out # "ok" => e.count = "ok"
    /\ (e.out = "ok" /\ e.count = "ok") => e.open2
    /\ ~e.open2 => e.close2

RecordsEnvs == {e \in AllEnvs : Canonical(e)}
ReadEnvs == {e \in RecordsEnvs : e.count = "ok"}
ExecEnvs == {e \in ReadEnvs : e.out # "panic"}

-----------------------------------------------------------------------------
(* Operations, with their arguments drawn from the given sets *)

ConnectOver(urls) ==
    \E url \in urls, pingOk \in BOOLEAN :
        \E r \in {ConnectCall(Self, url, pingOk)} :
            /\ Commit(r)
            /\ last' = Call("Connect", "", NoTable, Self, r)

SwitchDatabaseOver(databases) ==
    \E database \in databases, openOk \in BOOLEAN, closeOk \in BOOLEAN :
        \E r \in {SwitchDatabase(Self, database, openOk, closeOk)} :
            /\ Commit(r)
            /\ last' = Call("SwitchDatabase", database, NoTable, Self, r)

GetTablesOver(databases, envs) ==
    \E database \in databases, e \in envs :
        \E r \in {GetTablesCall(Self, database, e)} :
            /\ Commit(r)
            /\ last' = Call("GetTables", database, NoTable, Self, r)

GetTableColumnsOver(databases, tables, envs) ==
    \E database \in databases, table \in tables, e \in envs :
        \E r \in {GetTableColumnsCall(Self, database, table, e)} :
            /\ Commit(r)
            /\ last' = Call("GetTableColumns", database, table, Self, r)

GetConstraintsOver(databases, tables, envs) ==
    \E database \in databases, table \in tables, e \in envs :
        \E r \in {GetConstraintsCall(Self, database, table, e)} :
            /\ Commit(r)
            /\ last' = Call("GetConstraints", database, table, Self, r)

GetForeignKeysOver(databases, tables, envs) ==
    \E database \in databases, table \in tables, e \in envs :
        \E r \in {GetForeignKeysCall(Self, database, table, e)} :
            /\ Commit(r)
            /\ last' = Call("GetForeignKeys", database, table, Self, r)

GetIndexesOver(databases, tables, envs) ==
    \E database \in databases, table \in tables, e \in envs :
        \E r \in {GetIndexesCall(Self, database, table, e)} :
            /\ Commit(r)
            /\ last' = Call("GetIndexes", database, table, Self, r)

GetPrimaryKeyColumnNamesOver(databases, tables, envs) ==
    \E database \in databases, table \in tables, e \in envs :
        \E r \in {GetPrimaryKeyColumnNamesCall(Self, database, table, e)} :
            /\ Commit(r)
            /\ last' = Call("GetPrimaryKeyColumnNames", database, table, Self, r)

GetRecordsOver(databases, tables, pages, envs) ==
    \E database \in databases, table \in tables, p \in pages, e \in envs :
        \E r \in {GetRecordsCall(Self, database, table, p.where, p.sort, p.offset,
                                p.limit, e)} :
            /\ Commit(r)
            /\ last' = [Call("GetRecords", database, table, Self, r)
                           EXCEPT !.page = p, !.rows = e.rows]

UpdateRecordOver(databases, tables, args, envs) ==
    \E database \in databases, table \in tables, a \in args, e \in envs :
        \E r \in {UpdateRecordCall(Self, database, table, a[1], a[2], a[3], a[4], e)} :
            /\ Commit(r)
            /\ last' = [Call("UpdateRecord", database, table, Self, r) EXCEPT !.args = a]

DeleteRecordOver(databases, tables, args, envs) ==
    \E database \in databases, table \in tables, a \in args, e \in envs :
        \E r \in {DeleteRecordCall(Self, database, table, a[1], a[2], e)} :
            /\ Commit(r)
            /\ last' = [Call("DeleteRecord", database, table, Self, r) EXCEPT !.args = a]

ExecutePendingChangesOver(batches) ==
    \E changes \in batches :
        \E fails \in SUBSET (1..Len(changes)) :
            \E r \in {ExecutePendingChangesCall(Self, changes, fails)} :
                /\ Commit(r)
                /\ last' = [Call("ExecutePendingChanges", "", NoTable, Self, r)
                               EXCEPT !.changes = changes, !.fails = fails]

-----------------------------------------------------------------------------
(* Spec: the session. Connect and SwitchDatabase *)

NoCall ==
    [op |-> "none", database |-> "", table |-> NoTable, args |-> <<>>,
     page |-> FirstPage, rows |-> NoRows, records |-> <<>>,
     changes |-> <<>>, fails |-> {}, err |-> Nil, panicked |-> FALSE,
     pre |-> [Connection |-> 0, CurrentDatabase |-> "", PreviousDatabase |-> "",
              nhandles |-> 0, applied |-> <<>>],
     log |-> <<>>, queries |-> <<>>]

\* A SqlServer value as it is constructed: every field zero.
Init ==
    /\ Connection = 0
    /\ CurrentDatabase = ""
    /\ PreviousDatabase = ""
    /\ Urlstr = UrlEmpty
    /\ handles = <<>>
    /\ applied = <<>>
    /\ last = NoCall
    /\ calls = NoCalls
    /\ NewResultsFilter

Connect == ConnectOver(Urls)

SwitchDatabaseOp == SwitchDatabaseOver(DatabaseArgs)

Next ==
    \/ Connect
    \/ SwitchDatabaseOp

Spec == Init /\ [][Next]_vars

-----------------------------------------------------------------------------
(* The driver after Connect has succeeded on a connection string that names *)
(* no database: where the specifications of the operations start            *)

Zero ==
    [Connection |-> 0, CurrentDatabase |-> "", PreviousDatabase |-> "",
     Urlstr |-> UrlEmpty, handles |-> <<>>, applied |-> <<>>, log |-> <<>>,
     queries |-> <<>>, records |-> <<>>]

Connected == ConnectCall(Zero, UrlPlain, TRUE)

InitConnected ==
    /\ Connection = Connected.d.Connection
    /\ CurrentDatabase = Connected.d.CurrentDatabase
    /\ PreviousDatabase = Connected.d.PreviousDatabase
    /\ Urlstr = Connected.d.Urlstr
    /\ handles = Connected.d.handles
    /\ applied = Connected.d.applied
    /\ last = Call("Connect", "", NoTable, Zero, Connected)
    /\ calls = NoCalls
    /\ NewResultsFilter

-----------------------------------------------------------------------------
(* SpecWrite: the single-row writes *)

UpdateRecord == UpdateRecordOver(DatabaseArgs, {GoodTable}, {GoodUpdateArgs}, ExecEnvs)

DeleteRecord == DeleteRecordOver(DatabaseArgs, {GoodTable}, {GoodDeleteArgs}, ExecEnvs)

NextWrite ==
    \/ UpdateRecord
    \/ DeleteRecord

SpecWrite == InitConnected /\ [][NextWrite]_vars

-----------------------------------------------------------------------------
(* SpecRead: the read and introspection operations *)

ReadTables == {GoodTable}

GetTables == GetTablesOver(Databases, ReadEnvs)
GetTableColumns == GetTableColumnsOver(Databases, ReadTables, ReadEnvs)
GetConstraints == GetConstraintsOver(Databases, ReadTables, ReadEnvs)
GetForeignKeys == GetForeignKeysOver(Databases, ReadTables, ReadEnvs)
GetIndexes == GetIndexesOver(Databases, ReadTables, ReadEnvs)
GetPrimaryKeyColumnNames == GetPrimaryKeyColumnNamesOver(Databases, ReadTables, ReadEnvs)
GetRecords == GetRecordsOver(Databases, ReadTables, {FirstPage}, RecordsEnvs)

NextRead ==
    \/ GetTables
    \/ GetTableColumns
    \/ GetConstraints
    \/ GetForeignKeys
    \/ GetIndexes
    \/ GetPrimaryKeyColumnNames
    \/ GetRecords

SpecRead == InitConnected /\ [][NextRead]_vars

-----------------------------------------------------------------------------
(* SpecTables: every operation that takes a table, on every shape of table *)

\* The server answers: the table is what varies.
Quiet == {e \in ReadEnvs : e.open /\ e.close /\ e.out = "ok"}

InsertA == Change(GoodTable, DmlInsertType, <<Cell("a", "x", String)>>, <<>>)

TableBatches == {<<[InsertA EXCEPT !.Table = t]>> : t \in Tables}

TableDatabases == {"d1"}

GetTableColumnsOnTable == GetTableColumnsOver(TableDatabases, Tables, Quiet)
GetConstraintsOnTable == GetConstraintsOver(TableDatabases, Tables, Quiet)
GetForeignKeysOnTable == GetForeignKeysOver(TableDatabases, Tables, Quiet)
GetIndexesOnTable == GetIndexesOver(TableDatabases, Tables, Quiet)
GetPrimaryKeyColumnNamesOnTable ==
    GetPrimaryKeyColumnNamesOver(TableDatabases, Tables, Quiet)
GetRecordsOnTable == GetRecordsOver(TableDatabases, Tables, {FirstPage}, Quiet)
UpdateRecordOnTable == UpdateRecordOver(TableDatabases, Tables, {GoodUpdateArgs}, Quiet)
DeleteRecordOnTable == DeleteRecordOver(TableDatabases, Tables, {GoodDeleteArgs}, Quiet)
ExecutePendingChangesOnTable == ExecutePendingChangesOver(TableBatches)

NextTables ==
    \/ GetTableColumnsOnTable
    \/ GetConstraintsOnTable
    \/ GetForeignKeysOnTable
    \/ GetIndexesOnTable
    \/ GetPrimaryKeyColumnNamesOnTable
    \/ GetRecordsOnTable
    \/ UpdateRecordOnTable
    \/ DeleteRecordOnTable
    \/ ExecutePendingChangesOnTable

SpecTables == InitConnected /\ [][NextTables]_vars

-----------------------------------------------------------------------------
(* SpecBuild: ExecutePendingChanges on one pending change of every shape *)

CellSeqs ==
    {<<Cell("a", "x", String)>>,
     <<Cell("a", "", Null)>>,
     <<Cell("a", "", Default), Cell("b", "y", String)>>,
     <<Cell("a", "x", String), Cell("b", "", Null)>>,
     <<Cell("a", "z", Empty), Cell("b", "y", String)>>}

PkSeqs == {<<>>, <<Pk("id", "7")>>, <<Pk("id", "7"), Pk("k", "8")>>}

Inserts == {Change(GoodTable, DmlInsertType, cs, <<>>) : cs \in CellSeqs}
Updates == {Change(GoodTable, DmlUpdateType, cs, pk) : cs \in CellSeqs, pk \in PkSeqs}
Deletes ==
    {Change(GoodTable, DmlDeleteType, cs, pk) :
        cs \in {<<>>, <<Cell("a", "x", String)>>}, pk \in PkSeqs}

SingleBatches == {<<c>> : c \in Inserts \cup Updates \cup Deletes}

ExecutePendingChanges == ExecutePendingChangesOver(SingleBatches)

NextBuild == ExecutePendingChanges

SpecBuild == InitConnected /\ [][NextBuild]_vars

-----------------------------------------------------------------------------
(* SpecBatch: ExecutePendingChanges on batches of several changes *)

UpdateB == Change(GoodTable, DmlUpdateType, <<Cell("b", "y", String)>>, <<Pk("id", "7")>>)
DeleteC == Change(GoodTable, DmlDeleteType, <<>>, <<Pk("id", "9")>>)
UpdateNoDot == [UpdateB EXCEPT !.Table = <<"t">>]

SeveralBatches ==
    {<<>>,
     <<InsertA, UpdateB>>,
     <<InsertA, InsertA>>,
     <<InsertA, UpdateB, DeleteC>>,
     <<DeleteC, UpdateB, InsertA>>,
     <<UpdateB, InsertA, UpdateB>>,
     <<InsertA, UpdateNoDot, DeleteC>>}

ExecutePendingChangesBatch == ExecutePendingChangesOver(SeveralBatches)

NextBatch == ExecutePendingChangesBatch

SpecBatch == InitConnected /\ [][NextBatch]_vars

-----------------------------------------------------------------------------
(* SpecRecords: GetRecords on every page *)

\* The largest offset and limit asked for.
MaxOffset == 1
MaxLimit == 1

Pages ==
    {Page(w, s, o, l) :
        w \in {"", "WHERE id > 1"}, s \in {"", "id DESC"},
        o \in 0..MaxOffset, l \in 0..MaxLimit}

\* The switches succeed: the page is what varies.
PageEnvs == {e \in RecordsEnvs : e.open /\ e.close /\ e.open2 /\ e.close2}

GetRecordsPage == GetRecordsOver({"d1"}, {GoodTable}, Pages, PageEnvs)

NextRecords == GetRecordsPage

SpecRecords == InitConnected /\ [][NextRecords]_vars

-----------------------------------------------------------------------------
(* SpecArgs: every operation with arguments left empty *)

ArgTables == {GoodTable, <<>>}

ArgDatabases == {"", "d1"}

\* column, value, primaryKeyColumnName, primaryKeyValue, each given or empty.
UpdateArgs ==
    {<<c, v, k, w>> : c \in {"", "c"}, v \in {"", "v"}, k \in {"", "id"}, w \in {"", "1"}}

\* primaryKeyColumnName, primaryKeyValue, each given or empty.
DeleteArgs == {<<k, w>> : k \in {"", "id"}, w \in {"", "1"}}

GetTablesOnArgs == GetTablesOver(ArgDatabases, Quiet)
GetTableColumnsOnArgs == GetTableColumnsOver(ArgDatabases, ArgTables, Quiet)
GetConstraintsOnArgs == GetConstraintsOver(ArgDatabases, ArgTables, Quiet)
GetForeignKeysOnArgs == GetForeignKeysOver(ArgDatabases, ArgTables, Quiet)
GetIndexesOnArgs == GetIndexesOver(ArgDatabases, ArgTables, Quiet)
GetPrimaryKeyColumnNamesOnArgs ==
    GetPrimaryKeyColumnNamesOver(ArgDatabases, ArgTables, Quiet)
GetRecordsOnArgs == GetRecordsOver(ArgDatabases, ArgTables, {FirstPage}, Quiet)
UpdateRecordOnArgs == UpdateRecordOver(ArgDatabases, ArgTables, UpdateArgs, Quiet)
DeleteRecordOnArgs == DeleteRecordOver(ArgDatabases, ArgTables, DeleteArgs, Quiet)

NextArgs ==
    \/ GetTablesOnArgs
    \/ GetTableColumnsOnArgs
    \/ GetConstraintsOnArgs
    \/ GetForeignKeysOnArgs
    \/ GetIndexesOnArgs
    \/ GetPrimaryKeyColumnNamesOnArgs
    \/ GetRecordsOnArgs
    \/ UpdateRecordOnArgs
    \/ DeleteRecordOnArgs

SpecArgs == InitConnected /\ [][NextArgs]_vars

-----------------------------------------------------------------------------
(* SpecRows: GetRecords on every result set *)

\* The most rows a result set has.
MaxRows == 2

Cells == {NullCell, StringCell(""), StringCell("x")}

\* The first column takes every kind of cell, the second a NULL or a string.
ResultRows == {<<c, o>> : c \in Cells, o \in {NullCell, StringCell("y")}}

ResultSets == UNION {[1..n -> ResultRows] : n \in 0..MaxRows}

\* The switch succeeds and the count query answers: the rows are what varies,
\* and whether the paginated query fails.
RowEnvs ==
    {[e EXCEPT !.rows = rows] :
        e \in {x \in PageEnvs : x.out # "panic" /\ x.count = "ok"}, rows \in ResultSets}

GetRecordsRows == GetRecordsOver({"d1"}, {GoodTable}, {FirstPage}, RowEnvs)

NextRows == GetRecordsRows

SpecRows == InitConnected /\ [][NextRows]_vars

-----------------------------------------------------------------------------
(* SpecInterleave: UpdateRecord called by two callers that do not serialize *)
(* their calls. A call advances statement by statement: its checks, its     *)
(* switch of context, its statement, its switch back                        *)

InProgress == {"switch", "exec", "restore"}

\* The statement of UpdateRecord(database, "s.t", "c", "v", "id", "1").
UpdateStatement ==
    Query(<<"UPDATE ">> \o formatTableName(<<"s">>, <<"t">>)
          \o <<" SET ", "[", "c", "]", " = ", "?", " WHERE ", "[", "id", "]", " = ", "?">>,
          <<"v", "1">>)

\* Caller p enters UpdateRecord: the arguments pass the checks. The call
\* overlaps another when one is in progress, and so does that other.
Enter(p) ==
    \E database \in Databases :
        /\ calls[p].pc \in {"idle", "done"}
        /\ UpdateRecordCheck(database, GoodTable, "c", "v", "id", "1") = Nil
        /\ calls' =
               [q \in Callers |->
                   IF q = p
                   THEN [Idle EXCEPT !.pc = "switch", !.database = database,
                                     !.overlapped =
                                         \E o \in Callers \ {p} : calls[o].pc \in InProgress]
                   ELSE IF calls[q].pc \in InProgress
                   THEN [calls[q] EXCEPT !.overlapped = TRUE]
                   ELSE calls[q]]
        /\ UNCHANGED <<Connection, CurrentDatabase, PreviousDatabase, Urlstr, handles,
                       applied, last>>
        /\ UNCHANGED filterVars

\* if database != db.CurrentDatabase { err = db.SwitchDatabase(database); ...;
\* switchDatabaseOnError = true }
SwitchStep(p) ==
    /\ calls[p].pc = "switch"
    /\ \E r \in {ImplicitSwitch(Self, calls[p].database, TRUE, TRUE)} :
           /\ Assign(r)
           /\ calls' =
                  [calls EXCEPT
                      ![p].pc = IF r.err # Nil \/ r.panicked THEN "done" ELSE "exec",
                      ![p].switchDatabaseOnError = calls[p].database # CurrentDatabase]
    /\ last' = last

\* _, err = db.Connection.Exec(query, value, primaryKeyValue), on the handle
\* the driver references now and under the database that is current now.
ExecStep(p) ==
    /\ calls[p].pc = "exec"
    /\ \E out \in {"ok", "err"} :
           \E run \in {Run(Self, "Exec", UpdateStatement, out)} :
               /\ Assign(Return(run.d, Nil, FALSE))
               /\ calls' =
                      [calls EXCEPT
                          ![p].pc = IF run.out = "err" /\ calls[p].switchDatabaseOnError
                                    THEN "restore" ELSE "done",
                          ![p].under = CurrentDatabase]
    /\ last' = last

\* if err != nil && switchDatabaseOnError { err = db.SwitchDatabase(db.PreviousDatabase) }
RestoreStep(p) ==
    /\ calls[p].pc = "restore"
    /\ \E r \in {SwitchDatabase(Self, PreviousDatabase, TRUE, TRUE)} :
           /\ Assign(r)
           /\ calls' = [calls EXCEPT ![p].pc = "done"]
    /\ last' = last

NextInterleave ==
    \E p \in Callers :
        \/ Enter(p)
        \/ SwitchStep(p)
        \/ ExecStep(p)
        \/ RestoreStep(p)

SpecInterleave == InitConnected /\ [][NextInterleave]_vars

-----------------------------------------------------------------------------
(* SpecSession: the operations that switch context, from construction:     *)
(* Connect, SwitchDatabase, a write with its switch back and a read with   *)
(* its recover handler                                                     *)

SessionDatabases == {"", "d1"}

ConnectSession == ConnectOver(Urls)
SwitchDatabaseSession == SwitchDatabaseOver(SessionDatabases)
UpdateRecordSession ==
    UpdateRecordOver(SessionDatabases, {GoodTable}, {GoodUpdateArgs}, ExecEnvs)
GetTablesSession == GetTablesOver(SessionDatabases, ReadEnvs)

NextSession ==
    \/ ConnectSession
    \/ SwitchDatabaseSession
    \/ UpdateRecordSession
    \/ GetTablesSession

SpecSession == Init /\ [][NextSession]_vars

-----------------------------------------------------------------------------
(* SpecFilter: the filter of the results table (ResultsTableFilter). Keys   *)
(* are handled on the event loop, which a Publish blocks until every        *)
(* subscriber has received; subscribers receive when they choose to         *)

\* The most subscribers, and the most calls of Publish.
MaxSubscribers == 2
MaxPublished == 3

\* What the user can have typed into the input field.
Texts == {"", "a", "b"}

KeyEnter == "Enter"
KeyEscape == "Escape"
KeyTab == "Tab"
Keys == {KeyEnter, KeyEscape, KeyTab}

\* StateChange{Key: "Filter", Value: message}
StateChange(message) == [Key |-> "Filter", Value |-> message]

\* The done function publishing on Enter whatever the input holds.
DoneFuncAnyText(k, filter, text) ==
    CASE k = KeyEnter ->
           [currentFilter |-> "WHERE " \o text, Input |-> text,
            publish |-> <<"WHERE " \o text>>]
      [] k = KeyEscape -> [currentFilter |-> "", Input |-> "", publish |-> <<"">>]
      [] OTHER -> [currentFilter |-> filter, Input |-> text, publish |-> <<>>]

\* The function given to Input.SetDoneFunc: the filter and the input text it
\* leaves, and the message it calls Publish with, if any.
DoneFunc(k, filter, text) ==
    CASE k = KeyEnter ->
           IF text # ""
           THEN [currentFilter |-> "WHERE " \o text, Input |-> text,
                 publish |-> <<"WHERE " \o text>>]
           ELSE [currentFilter |-> filter, Input |-> text, publish |-> <<>>]
      [] k = KeyEscape -> [currentFilter |-> "", Input |-> "", publish |-> <<"">>]
      [] OTHER -> [currentFilter |-> filter, Input |-> text, publish |-> <<>>]

\* Publish(message) as it enters its loop over the subscribers it has at
\* that moment; with none it has returned.
PublishCall(subs, message) ==
    [active |-> subs # <<>>, message |-> message, targets |-> subs, next |-> 1]

\* The loop of Publish returning once its first send is received.
SentThenReturns(p) == NotPublishing

\* The loop of Publish after the send to its next subscriber is received:
\* on to the one after, or returned after the last.
Sent(p) ==
    IF p.next + 1 > Len(p.targets) THEN NotPublishing
    ELSE [p EXCEPT !.next = p.next + 1]

\* The user edits the input field.
Type ==
    \E text \in Texts :
        /\ ~publishing.active
        /\ Input' = text
        /\ key' = NoKey
        /\ UNCHANGED <<currentFilter, subscribers, channels, publishing, published>>
        /\ UNCHANGED driverVars

\* The input field is done with key k: the done function runs, up to the
\* first send of its Publish.
Done ==
    \E k \in Keys :
        \E r \in {DoneFunc(k, currentFilter, Input)} :
            /\ ~publishing.active
            /\ Len(published) + Len(r.publish) <= MaxPublished
            /\ currentFilter' = r.currentFilter
            /\ Input' = r.Input
            /\ published' = published \o r.publish
            /\ publishing' = IF r.publish = <<>> THEN publishing
                              ELSE PublishCall(subscribers, r.publish[1])
            /\ key' = [key |-> k, text |-> Input, filter |-> currentFilter,
                        count |-> Len(published)]
            /\ UNCHANGED <<subscribers, channels>>
            /\ UNCHANGED driverVars

\* Subscribe(): a new unbuffered channel, appended to the subscribers.
Subscribe ==
    /\ Len(subscribers) < MaxSubscribers
    /\ channels' = Append(channels, [received |-> <<>>, since |-> Len(published)])
    /\ subscribers' = Append(subscribers, Len(channels) + 1)
    /\ UNCHANGED <<currentFilter, Input, publishing, published, key>>
    /\ UNCHANGED driverVars

\* The subscriber Publish is sending to receives from its channel.
Receive ==
    /\ publishing.active
    /\ channels' =
           [channels EXCEPT ![publishing.targets[publishing.next]].received =
                                Append(@, StateChange(publishing.message))]
    /\ publishing' = Sent(publishing)
    /\ UNCHANGED <<currentFilter, Input, subscribers, published, key>>
    /\ UNCHANGED driverVars

NextFilter ==
    \/ Type
    \/ Done
    \/ Subscribe
    \/ Receive

SpecFilter == Init /\ [][NextFilter]_vars

-----------------------------------------------------------------------------
(* What a call did, read from its record *)

WriteOps == {"UpdateRecord", "DeleteRecord"}

ReadOps ==
    {"GetTables", "GetTableColumns", "GetConstraints", "GetForeignKeys", "GetIndexes",
     "GetPrimaryKeyColumnNames", "GetRecords"}

TableOps == (ReadOps \ {"GetTables"}) \cup WriteOps \cup {"ExecutePendingChanges"}

\* The operation switched context before it ran its statement.
Switched ==
    /\ last.op \in ReadOps \cup WriteOps
    /\ last.log # <<>>
    /\ last.log[1].ev = "SwitchDatabase"
    /\ last.log[1].res = Nil

\* The positions of the log where a statement or query failed with an error.
FailedAt == {i \in 1..Len(last.log) : last.log[i].ev \in {"Query", "Exec"} /\ last.log[i].res = "err"}

\* The positions of the log, after the first, where SwitchDatabase was called.
SwitchesAfter(i) == {j \in (i + 1)..Len(last.log) : last.log[j].ev = "SwitchDatabase"}

-----------------------------------------------------------------------------
(* C1 *)

\* C1: in UpdateRecord and DeleteRecord, when the call switched context and
\* the statement then fails, the error returned is the execution error: never
\* nil and never the error of the switch back.
C1_ReturnsExecutionError ==
    (last.op \in WriteOps /\ Switched /\ FailedAt # {}) => last.err = ErrExec

-----------------------------------------------------------------------------
(* C2 *)

ExecuteCall == last.op = "ExecutePendingChanges" /\ ~last.panicked

\* C2: the statements of one batch run in one transaction. When a statement
\* fails, the database is as it was before the call and the error is that of
\* the first statement that fails; when none fails, one statement per change
\* has been committed, all together.
C2_BatchIsAtomic ==
    ExecuteCall =>
        IF last.fails = {}
        THEN /\ last.err = Nil
             /\ Len(last.queries) = Len(last.changes)
             /\ applied = IF last.changes = <<>> THEN last.pre.applied
                          ELSE Append(last.pre.applied, last.queries)
        ELSE /\ last.err = StatementError(Min(last.fails))
             /\ applied = last.pre.applied

\* The second of three statements fails after the first has run.
C2_Witness ==
    /\ ExecuteCall
    /\ Len(last.changes) = 3
    /\ last.fails = {2, 3}
    /\ Len(last.queries) = 2
    /\ last.err = StatementError(2)

-----------------------------------------------------------------------------
(* C3 *)

RECURSIVE Ordinals(_)
\* The ordinals of the numbered placeholders of a statement, in text order:
\* the pieces that follow a "$".
Ordinals(text) ==
    IF Len(text) < 2 THEN <<>>
    ELSE IF text[1] = "$" THEN <<text[2]>> \o Ordinals(Tail(Tail(text)))
    ELSE Ordinals(Tail(text))

\* The part of a statement before its WHERE clause, and the clause.
WhereAt(text) ==
    IF \E i \in 1..Len(text) : text[i] = " WHERE "
    THEN CHOOSE i \in 1..Len(text) : text[i] = " WHERE "
    ELSE Len(text) + 1

BeforeWhere(text) == SubSeq(text, 1, WhereAt(text) - 1)
FromWhere(text) == SubSeq(text, WhereAt(text), Len(text))

Numbers(from, to) == [i \in 1..(to - from + 1) |-> ToString(from + i - 1)]

\* The cells of a change that bind an argument, and what each binds.
BoundCells(cells) == SelectSeq(cells, LAMBDA c : c.Type \in {String, Empty})
BoundValues(cells) ==
    [i \in 1..Len(BoundCells(cells)) |->
        IF BoundCells(cells)[i].Type = Empty THEN "" ELSE BoundCells(cells)[i].Value]

\* The call ran a batch of one change of the given kind.
Single(type) ==
    /\ ExecuteCall
    /\ Len(last.changes) = 1
    /\ last.changes[1].Type = type
    /\ Len(last.queries) = 1

\* C3: in the statement of an Update change whose SET clause uses k numbered
\* placeholders, the SET clause uses $1..$k, the i-th equality of the WHERE
\* clause uses $(k+i), and the arguments are the k SET values in cell order
\* followed by the primary-key values in descriptor order.
C3_OrdinalsRunOn ==
    Single(DmlUpdateType) =>
        LET change == last.changes[1]
            q == last.queries[1]
            k == Len(BoundCells(change.Values))
            m == Len(change.PrimaryKeyInfo)
        IN  /\ Ordinals(BeforeWhere(q.Query)) = Numbers(1, k)
            /\ Ordinals(FromWhere(q.Query)) = Numbers(k + 1, k + m)
            /\ q.Args = BoundValues(change.Values)
                        \o [i \in 1..m |-> change.PrimaryKeyInfo[i].Value]

\* An Update with a cell that binds nothing, one that binds, and two keys.
C3_Witness ==
    /\ Single(DmlUpdateType)
    /\ Len(last.changes[1].Values) = 2
    /\ Len(BoundCells(last.changes[1].Values)) = 1
    /\ Len(last.changes[1].PrimaryKeyInfo) = 2
    /\ Ordinals(last.queries[1].Query) = <<"1", "2", "3">>

-----------------------------------------------------------------------------
(* C4 *)

\* Exactly two non-empty parts separated by one '.'.
WellFormed(table) ==
    /\ Cardinality({i \in 1..Len(table) : table[i] = "."}) = 1
    /\ table[1] # "."
    /\ table[Len(table)] # "."

\* The tables the call was given.
TablesOfCall ==
    IF last.op = "ExecutePendingChanges"
    THEN {last.changes[i].Table : i \in 1..Len(last.changes)}
    ELSE {last.table}

\* C4: an operation given a table that is not of the form schema.table returns
\* a validation error, without a query or a context switch and without a
\* panic.
C4_MalformedTableRejected ==
    (last.op \in TableOps /\ \E t \in TablesOfCall : ~WellFormed(t)) =>
        /\ ~last.panicked
        /\ last.err \in ValidationErrors
        /\ last.log = <<>>

-----------------------------------------------------------------------------
(* C5 *)

Keyless(text) ==
    /\ text[1] \in {"UPDATE ", "DELETE FROM "}
    /\ \A i \in 1..Len(text) : text[i] # " WHERE "

\* C5: ExecutePendingChanges never submits an UPDATE or DELETE statement that
\* has no WHERE clause.
C5_NoKeylessStatement ==
    ExecuteCall => \A i \in 1..Len(last.queries) : ~Keyless(last.queries[i].Query)

-----------------------------------------------------------------------------
(* C6 *)

\* C6: after a successful SwitchDatabase(d), CurrentDatabase names the
\* database the driver's handle is bound to.
C6_CurrentDatabaseIsBound ==
    (last.op = "SwitchDatabase" /\ last.database # "" /\ last.err = Nil /\ ~last.panicked)
        => handles[Connection].bound = CurrentDatabase

-----------------------------------------------------------------------------
(* C7 *)

\* The switch back was made and succeeded.
Restored ==
    /\ Len(last.log) = 3
    /\ last.log[3].ev = "SwitchDatabase"
    /\ last.log[3].res = Nil

\* C7: in UpdateRecord and DeleteRecord, when the call switched from P to D,
\* the statement failed and the switch back succeeded, CurrentDatabase is P
\* when the call returns; when the call did not switch, a failed statement
\* makes no switch.
C7_FailureRestoresPrevious ==
    (last.op \in WriteOps /\ FailedAt # {}) =>
        /\ (Switched /\ Restored) => CurrentDatabase = last.pre.CurrentDatabase
        /\ ~Switched => \A i \in 1..Len(last.log) : last.log[i].ev # "SwitchDatabase"

\* A failed statement after a switch from d1 to d2, and the switch back.
C7_Witness ==
    /\ last.op \in WriteOps
    /\ FailedAt # {}
    /\ Switched
    /\ Restored
    /\ last.pre.CurrentDatabase = "d1"
    /\ last.database = "d2"

-----------------------------------------------------------------------------
(* C8 *)

\* C8: a read operation that switched context and whose query then fails
\* with an error calls SwitchDatabase(PreviousDatabase) before it returns,
\* and returns the error of the query.
C8_ReadFailureSwitchesBack ==
    (last.op \in ReadOps /\ Switched /\ FailedAt # {}) =>
        /\ \E j \in SwitchesAfter(Min(FailedAt)) : last.log[j].db = last.pre.CurrentDatabase
        /\ last.err = ErrQuery

-----------------------------------------------------------------------------
(* C9 *)

SessionUnchanged ==
    /\ CurrentDatabase = last.pre.CurrentDatabase
    /\ PreviousDatabase = last.pre.PreviousDatabase
    /\ Connection = last.pre.Connection

\* C9: a SwitchDatabase that does not return nil leaves CurrentDatabase,
\* PreviousDatabase and Connection as they were; one that returns nil has set
\* CurrentDatabase to the target, PreviousDatabase to the old CurrentDatabase
\* and Connection to the handle it opened.
C9_SwitchCommitsOnlyOnSuccess ==
    last.op = "SwitchDatabase" =>
        IF last.err # Nil \/ last.panicked
        THEN SessionUnchanged
        ELSE /\ CurrentDatabase = last.database
             /\ PreviousDatabase = last.pre.CurrentDatabase
             /\ Connection = last.pre.nhandles + 1
             /\ Len(handles) = last.pre.nhandles + 1

\* The new handle was opened and closing the old one failed.
C9_Witness ==
    /\ last.op = "SwitchDatabase"
    /\ last.err = ErrClose
    /\ Len(handles) = last.pre.nhandles + 1
    /\ last.database # last.pre.CurrentDatabase

-----------------------------------------------------------------------------
(* C10 *)

\* The position of the pagination clause in a query.
OffsetAt(text) == CHOOSE i \in 1..Len(text) : text[i] = " OFFSET "

\* C10: when GetRecords is given no sort, its query has the no-op
\* ORDER BY (SELECT NULL) immediately before the OFFSET ... FETCH clause.
C10_PaginationIsOrdered ==
    (last.op = "GetRecords" /\ last.queries # <<>> /\ last.page.sort = "") =>
        LET text == last.queries[1].Query
        IN  /\ \E i \in 1..Len(text) : text[i] = " OFFSET "
            /\ text[OffsetAt(text) - 1] = " ORDER BY (SELECT NULL)"

-----------------------------------------------------------------------------
(* C11 *)

\* The piece at position i of a statement lies inside a pair of identifier
\* quotes: the nearest quote before it opens, the nearest after it closes.
Bracketed(text, i) ==
    /\ \E j \in 1..(i - 1) :
           /\ text[j] = "["
           /\ \A k \in (j + 1)..i : text[k] \notin {"[", "]"}
    /\ \E m \in (i + 1)..Len(text) :
           /\ text[m] = "]"
           /\ \A k \in i..(m - 1) : text[k] \notin {"[", "]"}

\* The characters of the two parts of a table name.
TableNamePieces(table) ==
    IF Len(Split(table, ".")) < 2 THEN {}
    ELSE {Split(table, ".")[1][i] : i \in 1..Len(Split(table, ".")[1])}
         \cup {Split(table, ".")[2][i] : i \in 1..Len(Split(table, ".")[2])}

\* The table and column names the caller supplied to the call.
NamesOfCall ==
    CASE last.op = "ExecutePendingChanges" ->
           UNION {TableNamePieces(last.changes[i].Table)
                  \cup {last.changes[i].Values[j].Column :
                            j \in 1..Len(last.changes[i].Values)}
                  \cup {last.changes[i].PrimaryKeyInfo[j].Name :
                            j \in 1..Len(last.changes[i].PrimaryKeyInfo)} :
                  i \in 1..Len(last.changes)}
      [] last.op = "UpdateRecord" ->
           TableNamePieces(last.table) \cup {last.args[1], last.args[3]}
      [] last.op = "DeleteRecord" ->
           TableNamePieces(last.table) \cup {last.args[1]}
      [] OTHER -> TableNamePieces(last.table)

\* C11: in every statement generated by GetRecords, UpdateRecord,
\* DeleteRecord and ExecutePendingChanges, each table and column name the
\* caller supplied stands inside identifier quotes, [name].
C11_NamesAreQuoted ==
    last.op \in {"GetRecords", "UpdateRecord", "DeleteRecord", "ExecutePendingChanges"} =>
        \A q \in 1..Len(last.queries) :
            LET text == last.queries[q].Query
            IN  \A i \in 1..Len(text) :
                    text[i] \in NamesOfCall => Bracketed(text, i)

-----------------------------------------------------------------------------
(* C12 *)

\* The rendered values of an INSERT statement: what stands between
\* ") VALUES (" and the closing ")", split at the separators.
ValuesAt(text) == CHOOSE i \in 1..Len(text) : text[i] = ") VALUES ("
RenderedValues(text) == Split(SubSeq(text, ValuesAt(text) + 1, Len(text) - 1), ", ")

\* How many of the first i cells bind an argument.
BoundUpTo(cells, i) == Len(BoundCells(SubSeq(cells, 1, i)))

\* C12: in the statement of an Insert change, a Default cell renders as
\* DEFAULT and a Null cell as NULL, neither taking an ordinal nor binding an
\* argument; the String and Empty cells take $1, $2, ... in cell order, and
\* the arguments are exactly their values in that order, "" for Empty.
C12_InsertBindsPlainCells ==
    Single(DmlInsertType) =>
        LET cells == last.changes[1].Values
            q == last.queries[1]
            rendered == RenderedValues(q.Query)
        IN  /\ Len(rendered) = Len(cells)
            /\ \A i \in 1..Len(cells) :
                   rendered[i] =
                       CASE cells[i].Type = Default -> <<"DEFAULT">>
                         [] cells[i].Type = Null -> <<"NULL">>
                         [] OTHER -> <<"$", ToString(BoundUpTo(cells, i))>>
            /\ Len(q.Args) = Len(BoundCells(cells))
            /\ q.Args = BoundValues(cells)

\* An Insert of a Default cell followed by a String cell: one ordinal, one
\* argument.
C12_Witness ==
    /\ Single(DmlInsertType)
    /\ Len(last.changes[1].Values) = 2
    /\ last.changes[1].Values[1].Type = Default
    /\ last.changes[1].Values[2].Type = String
    /\ RenderedValues(last.queries[1].Query) = <<<<"DEFAULT">>, <<"$", "1">>>>
    /\ last.queries[1].Args = <<last.changes[1].Values[2].Value>>

-----------------------------------------------------------------------------
(* C13 *)

\* The arguments a change binds: the values of its cells that bind, then its
\* key values; a Delete binds the key values only, an Insert the cells only.
ArgsOfChange(change) ==
    CASE change.Type = DmlInsertType -> BoundValues(change.Values)
      [] change.Type = DmlUpdateType ->
           BoundValues(change.Values)
           \o [i \in 1..Len(change.PrimaryKeyInfo) |-> change.PrimaryKeyInfo[i].Value]
      [] change.Type = DmlDeleteType ->
           [i \in 1..Len(change.PrimaryKeyInfo) |-> change.PrimaryKeyInfo[i].Value]

VerbOfChange(change) ==
    CASE change.Type = DmlInsertType -> "INSERT INTO "
      [] change.Type = DmlUpdateType -> "UPDATE "
      [] change.Type = DmlDeleteType -> "DELETE FROM "

\* The statement is one built from the change.
BuiltFrom(q, change) ==
    /\ q.Query[1] = VerbOfChange(change)
    /\ q.Args = ArgsOfChange(change)

\* C13: the statements ExecutePendingChanges submits to the transaction are
\* one per change, in the order of the changes: the i-th statement submitted
\* is built from the i-th change, and when no statement fails there are as
\* many statements as changes, identical changes included.
C13_OneStatementPerChangeInOrder ==
    ExecuteCall =>
        /\ Len(last.queries) = IF last.fails = {} THEN Len(last.changes)
                               ELSE Min(last.fails)
        /\ \A i \in 1..Len(last.queries) : BuiltFrom(last.queries[i], last.changes[i])

\* A batch of two identical changes gives two identical statements.
C13_Witness ==
    /\ ExecuteCall
    /\ Len(last.changes) = 2
    /\ last.changes[1] = last.changes[2]
    /\ last.fails = {}
    /\ Len(last.queries) = 2
    /\ last.queries[1] = last.queries[2]

-----------------------------------------------------------------------------
(* C14 *)

\* A required argument of the call is empty.
EmptyArgument ==
    CASE last.op = "UpdateRecord" ->
           \/ last.database = ""
           \/ last.table = <<>>
           \/ \E i \in 1..4 : last.args[i] = ""
      [] last.op = "DeleteRecord" ->
           \/ last.database = ""
           \/ last.table = <<>>
           \/ \E i \in 1..2 : last.args[i] = ""
      [] last.op = "GetTables" -> last.database = ""
      [] last.op \in ReadOps \ {"GetTables"} ->
           last.database = "" \/ last.table = <<>>
      [] OTHER -> FALSE

\* C14: UpdateRecord, DeleteRecord and the read operations return a
\* validation error when a required argument is empty, having switched no
\* context and issued no query: CurrentDatabase, PreviousDatabase, the
\* handle and the set of handles are as before the call.
C14_EmptyArgumentRejected ==
    EmptyArgument =>
        /\ last.err \in ValidationErrors
        /\ ~last.panicked
        /\ last.log = <<>>
        /\ last.queries = <<>>
        /\ SessionUnchanged
        /\ Len(handles) = last.pre.nhandles

\* UpdateRecord on another database with only the value left empty.
C14_Witness ==
    /\ last.op = "UpdateRecord"
    /\ last.database # ""
    /\ last.database # last.pre.CurrentDatabase
    /\ last.table = GoodTable
    /\ last.args = <<"c", "", "id", "1">>
    /\ last.err = ErrValueRequired

-----------------------------------------------------------------------------
(* C15 *)

RECURSIVE QuotedNames(_)
\* The names a piece of statement quotes, in text order: the pieces that
\* follow a "[".
QuotedNames(text) ==
    IF Len(text) < 2 THEN <<>>
    ELSE IF text[1] = "[" THEN <<text[2]>> \o QuotedNames(Tail(Tail(text)))
    ELSE QuotedNames(Tail(text))

\* How many times a piece occurs in a statement.
Occurrences(text, piece) == Cardinality({i \in 1..Len(text) : text[i] = piece})

\* C15: the statement of a Delete change with k >= 1 primary-key descriptors
\* has one WHERE clause of k equalities joined by AND, on the descriptors'
\* columns in order with the placeholders $1..$k, and binds the k descriptor
\* values in that order; the cells of the change add no placeholder and no
\* argument.
C15_DeleteWhereFollowsKeys ==
    (Single(DmlDeleteType) /\ last.changes[1].PrimaryKeyInfo # <<>>) =>
        LET change == last.changes[1]
            q == last.queries[1]
            k == Len(change.PrimaryKeyInfo)
        IN  /\ Occurrences(q.Query, " WHERE ") = 1
            /\ Occurrences(q.Query, " AND ") = k - 1
            /\ Occurrences(q.Query, " = ") = k
            /\ Ordinals(BeforeWhere(q.Query)) = <<>>
            /\ Ordinals(FromWhere(q.Query)) = Numbers(1, k)
            /\ QuotedNames(FromWhere(q.Query)) =
                   [i \in 1..k |-> change.PrimaryKeyInfo[i].Name]
            /\ q.Args = [i \in 1..k |-> change.PrimaryKeyInfo[i].Value]

\* A Delete that carries a cell and two keys.
C15_Witness ==
    /\ Single(DmlDeleteType)
    /\ Len(last.changes[1].Values) = 1
    /\ Len(last.changes[1].PrimaryKeyInfo) = 2
    /\ Ordinals(last.queries[1].Query) = <<"1", "2">>
    /\ Len(last.queries[1].Args) = 2

-----------------------------------------------------------------------------
(* C16 *)

\* The last n pieces of a statement.
Ending(text, n) ==
    IF Len(text) < n THEN text ELSE SubSeq(text, Len(text) - n + 1, Len(text))

\* C16: the query of GetRecords always ends with
\* OFFSET <offset> ROWS FETCH NEXT <n> ROWS ONLY, n being the limit asked for
\* when it is positive and DefaultRowLimit when it is 0.
C16_RecordsAreBounded ==
    (last.op = "GetRecords" /\ last.queries # <<>>) =>
        Ending(last.queries[1].Query, 5) =
            <<" OFFSET ", ToString(last.page.offset), " ROWS FETCH NEXT ",
              ToString(IF last.page.limit > 0 THEN last.page.limit ELSE DefaultRowLimit),
              " ROWS ONLY">>

\* A page asked for with offset 0 and limit 0 fetches DefaultRowLimit rows.
C16_Witness ==
    /\ last.op = "GetRecords"
    /\ last.page.offset = 0
    /\ last.page.limit = 0
    /\ last.queries # <<>>
    /\ Ending(last.queries[1].Query, 2) = <<ToString(DefaultRowLimit), " ROWS ONLY">>

-----------------------------------------------------------------------------
(* C17 *)

\* GetRecords returned its records.
RecordsReturned ==
    /\ last.op = "GetRecords"
    /\ last.err = Nil
    /\ ~last.panicked
    /\ last.records # <<>>

\* C17: in the records GetRecords returns, a cell that is SQL NULL is
\* "NULL&", a cell that holds the empty string is "EMPTY&" and any other
\* cell is the string it holds; so a NULL cell and an empty-string cell of
\* one column are returned as different strings.
C17_NullAndEmptyDiffer ==
    RecordsReturned =>
        /\ Len(last.records) = Len(last.rows) + 1
        /\ \A i \in 1..Len(last.rows) :
               /\ Len(last.records[i + 1]) = Len(last.rows[i])
               /\ \A j \in 1..Len(last.rows[i]) :
                      LET col == last.rows[i][j]
                          out == last.records[i + 1][j]
                      IN  /\ ~col.Valid => out = "NULL&"
                          /\ (col.Valid /\ col.String = "") => out = "EMPTY&"
                          /\ (col.Valid /\ col.String # "") => out = col.String
        /\ \A i, k \in 1..Len(last.rows) :
               \A j \in 1..Len(last.rows[i]) :
                   (~last.rows[i][j].Valid /\ last.rows[k][j] = StringCell(""))
                       => last.records[i + 1][j] # last.records[k + 1][j]

\* Two rows whose first column is NULL in one and the empty string in the
\* other.
C17_Witness ==
    /\ RecordsReturned
    /\ Len(last.rows) = 2
    /\ last.rows[1][1] = NullCell
    /\ last.rows[2][1] = StringCell("")
    /\ last.records[2][1] = "NULL&"
    /\ last.records[3][1] = "EMPTY&"

-----------------------------------------------------------------------------
(* C18 *)

\* C18: a read operation called with the database that is already current
\* leaves CurrentDatabase, PreviousDatabase and Connection as they were,
\* however it returns: with its result, with the error of its query, or
\* through its recover handler after a panic.
C18_ReadOnCurrentKeepsSession ==
    (last.op \in ReadOps /\ last.database = last.pre.CurrentDatabase) => SessionUnchanged

-----------------------------------------------------------------------------
(* C19 *)

\* The call of p has issued its statement.
Issued(p) == calls[p].pc \in {"restore", "done"} /\ calls[p].under # Nil

\* C19: a call that overlaps no other issues its statement while
\* CurrentDatabase is the database it was called with; only a call that
\* overlaps another can issue it under a different database, which happens
\* when the other's SwitchDatabase replaces the handle between the call's own
\* switch and its statement.
C19_SerializedCallsRunUnderTheirDatabase ==
    \A p \in Callers :
        (Issued(p) /\ ~calls[p].overlapped) => calls[p].under = calls[p].database

\* Two overlapping calls for different databases, one of which has issued
\* its statement under the database of the other.
C19_Witness ==
    \E p, q \in Callers :
        /\ p # q
        /\ Issued(p)
        /\ calls[p].overlapped
        /\ calls[q].pc \in InProgress \cup {"done"}
        /\ calls[q].database # calls[p].database
        /\ calls[p].under = calls[q].database

-----------------------------------------------------------------------------
(* C20 *)

Max(S) == CHOOSE x \in S : \A y \in S : x >= y

\* The positions of the log where a SwitchDatabase succeeded.
SuccessfulSwitches ==
    {i \in 1..Len(last.log) : last.log[i].ev = "SwitchDatabase" /\ last.log[i].res = Nil}

\* What CurrentDatabase was immediately before the switch at position j of
\* the log: the target of the successful switch before it, or what it was
\* when the call began.
CurrentBefore(j) ==
    LET earlier == {i \in SuccessfulSwitches : i < j}
    IN  IF earlier = {} THEN last.pre.CurrentDatabase ELSE last.log[Max(earlier)].db

\* C20: a call in which no SwitchDatabase succeeded leaves PreviousDatabase as
\* it was; after a call in which one did, PreviousDatabase is what
\* CurrentDatabase was immediately before the last of them, whether the
\* switch was asked for, made by an operation or made to switch back.
C20_PreviousIsCurrentBeforeLastSwitch ==
    IF SuccessfulSwitches = {}
    THEN PreviousDatabase = last.pre.PreviousDatabase
    ELSE PreviousDatabase = CurrentBefore(Max(SuccessfulSwitches))

\* A write that switched from "" to d1, failed and switched back.
C20_Witness ==
    /\ last.op = "UpdateRecord"
    /\ Cardinality(SuccessfulSwitches) = 2
    /\ last.pre.CurrentDatabase = ""
    /\ last.database = "d1"
    /\ CurrentDatabase = ""
    /\ PreviousDatabase = "d1"

-----------------------------------------------------------------------------
(* C21 *)

\* C21: SwitchDatabase opens the new handle before it closes the old one.
\* When the close of the old handle fails, the call returns that error with
\* the new handle already opened; the driver still references the old
\* handle, and the new handle is left open, referenced by nothing.
C21_FailedCloseLeavesNewHandleOpen ==
    (last.op = "SwitchDatabase" /\ last.err = ErrClose) =>
        /\ ~last.panicked
        /\ Len(handles) = last.pre.nhandles + 1
        /\ ~handles[Len(handles)].closed
        /\ Connection = last.pre.Connection
        /\ Connection # Len(handles)
        /\ CurrentDatabase = last.pre.CurrentDatabase
        /\ PreviousDatabase = last.pre.PreviousDatabase

\* A switch whose close of the old handle failed: one more handle, open, and
\* the driver on the old one.
C21_Witness ==
    /\ last.op = "SwitchDatabase"
    /\ last.err = ErrClose
    /\ Connection = last.pre.Connection
    /\ handles[Connection].closed
    /\ ~handles[Len(handles)].closed
    /\ Len(handles) > Connection

-----------------------------------------------------------------------------
(* C22 *)

\* The filter is none, or WHERE and a text that is not empty.
FilterShape == currentFilter = "" \/ \E text \in Texts \ {""} : currentFilter = "WHERE " \o text

\* C22: whatever keys the filter's input has been done with, currentFilter
\* is "" or "WHERE " followed by a non-empty text, and is the message of the
\* last Publish. Enter on a non-empty text T sets it to "WHERE " + T and
\* publishes that; Enter on an empty text changes and publishes nothing;
\* Escape sets it and the input text to "" and publishes "".
C22_FilterIsLastPublished ==
    /\ FilterShape
    /\ currentFilter = IF published = <<>> THEN "" ELSE published[Len(published)]
    /\ (key.key = KeyEnter /\ key.text # "") =>
           /\ currentFilter = "WHERE " \o key.text
           /\ published = SubSeq(published, 1, key.count) \o <<"WHERE " \o key.text>>
    /\ (key.key = KeyEnter /\ key.text = "") =>
           /\ currentFilter = key.filter
           /\ Input = key.text
           /\ Len(published) = key.count
    /\ key.key = KeyEscape =>
           /\ currentFilter = ""
           /\ Input = ""
           /\ published = SubSeq(published, 1, key.count) \o <<"">>

\* Enter on an empty input while a filter is set: the filter stays.
C22_Witness ==
    /\ key.key = KeyEnter
    /\ key.text = ""
    /\ key.filter = "WHERE a"
    /\ currentFilter = "WHERE a"
    /\ Len(published) = key.count

-----------------------------------------------------------------------------
(* C23 *)

\* The messages published since channel c was made, as they are sent.
DueTo(c) ==
    [i \in 1..(Len(published) - channels[c].since) |->
        StateChange(published[channels[c].since + i])]

\* The Publish in progress has not yet sent to channel c.
Awaited(c) ==
    /\ publishing.active
    /\ \E i \in publishing.next..Len(publishing.targets) : publishing.targets[i] = c

\* C23: every channel has received, once each and in order, the messages
\* published since Subscribe returned it, with Key "Filter" - all but the
\* message in progress for the channels Publish has not reached yet.
\* Publish sends in subscription order and is in progress until its last
\* subscriber has received: while one subscriber does not receive, none of
\* the later ones has the message; with no subscriber Publish is never in
\* progress.
C23_PublishReachesEachSubscriberOnce ==
    /\ subscribers = [i \in 1..Len(channels) |-> i]
    /\ publishing.active =>
           /\ publishing.targets # <<>>
           /\ publishing.next \in 1..Len(publishing.targets)
           /\ publishing.targets = SubSeq(subscribers, 1, Len(publishing.targets))
           /\ publishing.message = published[Len(published)]
    /\ \A c \in 1..Len(channels) :
           channels[c].received =
               IF Awaited(c) THEN SubSeq(DueTo(c), 1, Len(DueTo(c)) - 1) ELSE DueTo(c)

\* A Publish to two subscribers, the first of which has received and the
\* second not yet.
C23_Witness ==
    /\ publishing.active
    /\ Len(publishing.targets) = 2
    /\ publishing.next = 2
    /\ channels[1].received # <<>>
    /\ channels[1].received[Len(channels[1].received)] = StateChange(publishing.message)
    /\ channels[2].received = <<>>

====
